---- MODULE Spec2Model ----
(***************************************************************************)
(* Receive side of the stm32f4x9-eth driver: RxDescriptor, RxRingEntry and *)
(* RxRing (src/src/rx.rs) as driven through Eth (src/src/lib.rs), running  *)
(* against the receive DMA engine, which walks the descriptor ring on its  *)
(* own.  A descriptor is four 32-bit words; bit 31 of word 0 (OWN) is kept *)
(* as the boolean field own, the remaining 31 bits as the number w0.       *)
(***************************************************************************)
EXTENDS Integers, Sequences, FiniteSets, TLC

\* ---------------------------------------------------------------- bounds
\* longest ring length passed to start()
MaxRing == 2
\* number of frames the DMA engine completes in one behaviour
MaxFrames == 3
\* number of received Buffers the caller keeps before dropping one
MaxHeld == 1
\* number of start() calls in one behaviour
MaxStarts == 2
\* number of descriptors of the transmit ring
TxRingLen == 2

\* ------------------------------------------------------ program constants
ALIGNMENT == 8
MTU == 1518
RXDESC_0_FS == 512
RXDESC_0_LS == 256
RXDESC_0_ES == 32768
RXDESC_0_FL_MASK == 16383
RXDESC_0_FL_SHIFT == 16
RXDESC_1_RBS_SHIFT == 0
RXDESC_1_RBS_MASK == 4095
RXDESC_1_RCH == 16384
RXDESC_1_RER == 32768

NULL == 0
None == [some |-> FALSE, ptr |-> 0, len |-> 0]
Some(ptr, len) == [some |-> TRUE, ptr |-> ptr, len |-> len]

\* receive process states of the DMA status register (rps field)
RPS_STOPPED == 0
RPS_FETCHING == 1
RPS_WAITING == 3
RPS_SUSPENDED == 4
RPS_CLOSING == 5
RPS_TRANSFER == 7

\* transmit process states of the DMA status register (tps field)
TPS_STOPPED == 0
TPS_FETCHING == 1
TPS_WAITING == 2
TPS_READING == 3
TPS_SUSPENDED == 6
TPS_CLOSING == 7

\* ---------------------------------------------------------------- state
VARIABLES
    buffers,     \* RxRing.buffers: sequence of [desc, buffer] (addresses)
    next_entry,  \* RxRing.next_entry (0-based)
    rdesc,       \* descriptor memory: address -> [own, w0, w1, w2, w3]
    bufMem,      \* buffer memory: address -> number of the frame stored there
    held,        \* addresses of the Buffers the caller still holds
    result,      \* what recv_next returned, when the last step was recv_next
    writes,      \* descriptor writes made by the last step, when a software call
    op,          \* the call the last step made ("dma" for an engine step)
    panicked,    \* the program aborted (index out of bounds)
    dmardlar,    \* receive descriptor list address register
    sr,          \* DMAOMR.SR, start receive
    rps,         \* DMASR.RPS, receive process state
    chrdr,       \* the engine's current receive descriptor
    inFrame,     \* the engine is inside a frame spanning several descriptors
    frames,      \* frames the engine has taken so far
    starts,      \* start() calls made so far
    delivered,   \* number of the frame recv_next returned last
    pc,          \* position of Eth::new
    rx_ring_len, \* the argument of Eth::new
    dmabmr_sr,   \* DMABMR.SR, software reset
    regwrites,   \* the register writes Eth::new has made, in order
    dmaier,      \* DMAIER: the interrupt sources enabled
    nvic,        \* the Ethernet line is enabled at the interrupt controller
    dmasr,       \* DMASR: the status bits pending
    call,        \* the last call made outside the receive ring
    tx_st,       \* DMAOMR.ST, start transmission
    tps,         \* DMASR.TPS, transmit process state
    tx_own,      \* OWN of each transmit descriptor
    tx_next,     \* the send cursor of the transmit ring (0-based)
    tx_cur,      \* the transmit engine's current descriptor (0-based)
    sendpc       \* position of Eth::send

rxvars == <<buffers, next_entry, rdesc, bufMem, held, result, writes, op,
            panicked, dmardlar, sr, rps, chrdr, inFrame, frames, starts,
            delivered>>

ethvars == <<pc, rx_ring_len, dmabmr_sr, regwrites, dmaier, nvic, dmasr, call>>

txvars == <<tx_st, tps, tx_own, tx_next, tx_cur, sendpc>>

vars == <<rxvars, ethvars, txvars>>

swvars == <<buffers, next_entry, held, panicked, dmardlar, sr, starts,
            delivered>>

\* ------------------------------------------------------------ bit helpers
RECURSIVE BitAnd(_, _)
BitAnd(a, b) ==
    IF a = 0 \/ b = 0 THEN 0
    ELSE (a % 2) * (b % 2) + 2 * BitAnd(a \div 2, b \div 2)

BitOr(a, b) == a + b - BitAnd(a, b)

\* (w & mask) == mask, for a mask of one bit
TestBit(w, mask) == (w \div mask) % 2 = 1

\* w & !m
BitClear(w, m) == w - BitAnd(w, m)

Pow2(n) == 2 ^ n

ShiftRight(w, n) == w \div Pow2(n)

ShiftLeft(w, n) == w * Pow2(n)

\* w & mask, for a mask of the low bits (mask + 1 a power of two)
LowBits(w, mask) == w % (mask + 1)

Min(S) == CHOOSE x \in S : \A y \in S : x <= y

\* ------------------------------------------------------------------ heap
HeapSlots == 2 * MaxRing + MaxHeld

Heap == {ALIGNMENT * k : k \in 1..HeapSlots}

Range(s) == {s[i] : i \in 1..Len(s)}

RingDescs(bufs) == {e.desc : e \in Range(bufs)}

RingBuffers(bufs) == {e.buffer : e \in Range(bufs)}

Free == Heap \ (DOMAIN rdesc \cup RingBuffers(buffers) \cup held)

\* Heap.alloc: the allocator hands out the lowest free block (first fit)
Alloc(free) == Min(free)

\* ------------------------------------------------------------ RxDescriptor
DefaultDesc == [own |-> FALSE, w0 |-> 0, w1 |-> RXDESC_1_RCH, w2 |-> 0, w3 |-> 0]

\* a driver that never looks at OWN
is_owned_never(d) == FALSE

is_owned(d) == d.own

set_owned(d) == [d EXCEPT !.own = TRUE]

\* a driver that never looks at the error summary
has_error_never(d) == FALSE

has_error(d) == TestBit(d.w0, RXDESC_0_ES)

is_first(d) == TestBit(d.w0, RXDESC_0_FS)

is_last(d) == TestBit(d.w0, RXDESC_0_LS)

\* a set_buffer1 that does not clear the size field before setting it
set_buffer1_keeps_size(d, buffer, len) ==
    [d EXCEPT !.w2 = buffer,
              !.w1 = BitOr(@, ShiftLeft(len, RXDESC_1_RBS_SHIFT))]

set_buffer1(d, buffer, len) ==
    [d EXCEPT !.w2 = buffer,
              !.w1 = BitOr(BitClear(@, RXDESC_1_RBS_MASK),
                           ShiftLeft(len, RXDESC_1_RBS_SHIFT))]

set_buffer2(d, buffer) == [d EXCEPT !.w3 = buffer]

set_end_of_ring(d) == [d EXCEPT !.w1 = BitOr(@, RXDESC_1_RER)]

frame_length(d) == LowBits(ShiftRight(d.w0, RXDESC_0_FL_SHIFT), RXDESC_0_FL_MASK)

\* ------------------------------------------------------------ RxRingEntry
\* one logged descriptor write: which descriptor, which word, whether OWN was
\* hardware when the write was made, and whether the descriptor was already
\* part of a ring handed to the engine
Wr(desc, word, own, pub) == [desc |-> desc, word |-> word, own |-> own, pub |-> pub]

\* the descriptor RxRingEntry::new(capacity) builds around a Buffer at `buffer`
RxRingEntry_new(buffer, capacity) ==
    set_owned(set_buffer1(DefaultDesc, buffer, capacity))

RxRingEntry_new_writes(desc) ==
    {Wr(desc, "w2", FALSE, FALSE), Wr(desc, "w1", FALSE, FALSE),
     Wr(desc, "own", FALSE, FALSE)}

\* a chaining that flags every entry as the end of the ring
set_next_buffer_all_ends(d, next) ==
    set_end_of_ring(set_buffer2(d, next))

\* next: the address of the next entry's descriptor, or NULL for Option::None
set_next_buffer(d, next) ==
    IF next # NULL
    THEN set_buffer2(d, next)
    ELSE set_end_of_ring(set_buffer2(d, NULL))

set_next_buffer_writes(desc, d, next, pub) ==
    IF next # NULL
    THEN {Wr(desc, "w3", d.own, pub)}
    ELSE {Wr(desc, "w3", d.own, pub), Wr(desc, "w1", d.own, pub)}

\* a receive path that hands the filled Buffer out and keeps it in the entry
take_received_keeps_buffer(e, d, fresh) ==
    IF is_owned(d)
    THEN [entry |-> e, d |-> d, pkt |-> None, case |-> "none"]
    ELSE IF has_error(d)
    THEN [entry |-> e, d |-> set_owned(d), pkt |-> None, case |-> "error"]
    ELSE IF is_first(d) /\ is_last(d)
    THEN [entry |-> e, d |-> set_owned(d),
          pkt |-> Some(e.buffer, frame_length(d)), case |-> "frame"]
    ELSE [entry |-> e, d |-> set_owned(d), pkt |-> None, case |-> "fragment"]

\* a receive path that swaps the Buffers and hands the descriptor back without
\* reprogramming its pointer
take_received_stale_pointer(e, d, fresh) ==
    IF is_owned(d)
    THEN [entry |-> e, d |-> d, pkt |-> None, case |-> "none"]
    ELSE IF has_error(d)
    THEN [entry |-> e, d |-> set_owned(d), pkt |-> None, case |-> "error"]
    ELSE IF is_first(d) /\ is_last(d)
    THEN [entry |-> [e EXCEPT !.buffer = fresh], d |-> set_owned(d),
          pkt |-> Some(e.buffer, frame_length(d)), case |-> "frame"]
    ELSE [entry |-> e, d |-> set_owned(d), pkt |-> None, case |-> "fragment"]

\* take_received on the entry e whose descriptor holds d; fresh is the address
\* Buffer::new returns.  Yields the entry, its descriptor and the Option.
take_received(e, d, fresh) ==
    IF is_owned(d)
    THEN [entry |-> e, d |-> d, pkt |-> None, case |-> "none"]
    ELSE IF has_error(d)
    THEN [entry |-> e, d |-> set_owned(d), pkt |-> None, case |-> "error"]
    ELSE IF is_first(d) /\ is_last(d)
    THEN [entry |-> [e EXCEPT !.buffer = fresh],
          d |-> set_owned(set_buffer1(d, fresh, MTU)),
          pkt |-> Some(e.buffer, frame_length(d)),
          case |-> "frame"]
    ELSE [entry |-> e, d |-> set_owned(d), pkt |-> None, case |-> "fragment"]

take_received_writes(e, d) ==
    IF is_owned(d) THEN {}
    ELSE IF has_error(d) THEN {Wr(e.desc, "own", FALSE, TRUE)}
    ELSE IF is_first(d) /\ is_last(d)
    THEN {Wr(e.desc, "w2", FALSE, TRUE), Wr(e.desc, "w1", FALSE, TRUE),
          Wr(e.desc, "own", FALSE, TRUE)}
    ELSE {Wr(e.desc, "own", FALSE, TRUE)}

\* does take_received allocate a Buffer for this descriptor?
NeedsBuffer(d) == ~is_owned(d) /\ ~has_error(d) /\ is_first(d) /\ is_last(d)

\* ------------------------------------------------------------------ RxRing
\* the cursor after a packet was taken
AdvanceCursor(cursor, len) ==
    IF cursor + 1 >= len THEN 0 ELSE cursor + 1

\* a decode that looks at the lowest bit of the code only
running_state_low_bit(code) == IF code % 2 = 1 THEN "Running" ELSE "Stopped"

\* running_state(eth_dma).is_running()
running_state(code) ==
    CASE code = 0 -> "Stopped"
      [] code = 1 -> "Running"
      [] code = 3 -> "Running"
      [] code = 4 -> "Stopped"
      [] code = 5 -> "Running"
      [] code = 7 -> "Running"
      [] OTHER -> "Unknown"

is_running(state) == state = "Running"

\* a start() that also shortens the ring to ring_length
RECURSIVE Grow_truncating(_, _, _)
Grow_truncating(bufs, ring_length, free) ==
    IF Len(bufs) > ring_length THEN SubSeq(bufs, 1, ring_length)
    ELSE IF Len(bufs) = ring_length THEN bufs
    ELSE LET d == Alloc(free)
             b == Alloc(free \ {d})
         IN  Grow_truncating(Append(bufs, [desc |-> d, buffer |-> b]),
                             ring_length, free \ {d, b})

\* the entries start() appends: a descriptor, then its Buffer, per entry
RECURSIVE Grow(_, _, _)
Grow(bufs, ring_length, free) ==
    IF Len(bufs) >= ring_length THEN bufs
    ELSE LET d == Alloc(free)
             b == Alloc(free \ {d})
         IN  Grow(Append(bufs, [desc |-> d, buffer |-> b]), ring_length,
                  free \ {d, b})

\* the descriptor address of the entry after position i, NULL after the last
NextOf(bufs, i) == IF i < Len(bufs) THEN bufs[i + 1].desc ELSE NULL

IndexOf(bufs, desc) == CHOOSE i \in 1..Len(bufs) : bufs[i].desc = desc

\* descriptor memory after start() has built the new entries of `all`
Built(all) ==
    [a \in RingDescs(all) |->
        IF a \in DOMAIN rdesc THEN rdesc[a]
        ELSE RxRingEntry_new(all[IndexOf(all, a)].buffer, MTU)]

\* descriptor memory after start() has chained every entry of `all`
Linked(all) ==
    LET built == Built(all)
    IN  [a \in RingDescs(all) |->
            set_next_buffer(built[a], NextOf(all, IndexOf(all, a)))]

StartWrites(all) ==
    LET built == Built(all)
    IN  UNION {RxRingEntry_new_writes(a) : a \in RingDescs(all) \ DOMAIN rdesc}
        \cup UNION {set_next_buffer_writes(a, built[a],
                                           NextOf(all, IndexOf(all, a)),
                                           rps # RPS_STOPPED /\ a \in DOMAIN rdesc)
                    : a \in RingDescs(all)}

\* the record of one call: its name, its argument (start: ring_length,
\* recv_next: the cursor it found), the ring length it found, the path it took
\* and whether it wrote the poll demand register
Op(name, arg, len0, case, poll) ==
    [name |-> name, arg |-> arg, len0 |-> len0, case |-> case, poll |-> poll]

\* RxRing::demand_poll: the write to DMARPDR makes a suspended engine fetch
\* its current descriptor again; in any other state it has no effect
demand_poll(state) == IF state = RPS_SUSPENDED THEN RPS_FETCHING ELSE state

\* RxRing::start(ring_length, eth_dma), reached through Eth::start_rx and,
\* for rx_ring_len > 0, through Eth::new
Start(ring_length) ==
    /\ ~panicked
    /\ starts < MaxStarts
    /\ starts' = starts + 1
    /\ LET all == Grow(buffers, ring_length, Free)
       IN  IF Len(all) = 0
           THEN \* self.buffers[0] on an empty Vec
                /\ panicked' = TRUE
                /\ next_entry' = 0
                /\ op' = Op("start", ring_length, Len(buffers), "panic", FALSE)
                /\ writes' = {}
                /\ UNCHANGED <<buffers, rdesc, dmardlar, sr, rps>>
           ELSE /\ buffers' = all
                /\ rdesc' = Linked(all)
                /\ next_entry' = 0
                /\ dmardlar' = all[1].desc
                /\ sr' = TRUE
                /\ rps' = demand_poll(rps)
                /\ writes' = StartWrites(all)
                /\ op' = Op("start", ring_length, Len(buffers),
                            IF Len(buffers) = 0 THEN "fresh"
                            ELSE IF ring_length > Len(buffers) THEN "regrow"
                            ELSE "relink", TRUE)
                /\ UNCHANGED panicked
    /\ result' = None
    /\ UNCHANGED <<bufMem, held, chrdr, inFrame, frames, delivered>>

\* RxRing::recv_next(eth_dma), reached through Eth::recv_next
RecvNext ==
    /\ ~panicked
    /\ Cardinality(held) < MaxHeld
    /\ IF next_entry >= Len(buffers)
       THEN \* self.buffers[self.next_entry] out of bounds
            /\ panicked' = TRUE
            /\ op' = Op("recv", next_entry, Len(buffers), "panic", FALSE)
            /\ writes' = {}
            /\ result' = None
            /\ UNCHANGED <<buffers, next_entry, rdesc, held, rps, delivered>>
       ELSE LET e == buffers[next_entry + 1]
                d == rdesc[e.desc]
                fresh == IF NeedsBuffer(d) THEN Alloc(Free) ELSE NULL
                r == take_received(e, d, fresh)
            IN        /\ buffers' = [buffers EXCEPT ![next_entry + 1] = r.entry]
                      /\ rdesc' = [rdesc EXCEPT ![e.desc] = r.d]
                      /\ result' = r.pkt
                      /\ next_entry' = IF r.pkt.some
                                       THEN AdvanceCursor(next_entry, Len(buffers))
                                       ELSE next_entry
                      /\ held' = IF r.pkt.some THEN held \cup {r.pkt.ptr} ELSE held
                      /\ delivered' = IF r.pkt.some THEN bufMem[r.pkt.ptr]
                                      ELSE delivered
                      /\ rps' = IF ~is_running(running_state(rps))
                                 THEN demand_poll(rps) ELSE rps
                      /\ writes' = take_received_writes(e, d)
                      /\ op' = Op("recv", next_entry, Len(buffers), r.case,
                                  ~is_running(running_state(rps)))
                      /\ UNCHANGED panicked
    /\ UNCHANGED <<bufMem, dmardlar, sr, chrdr, inFrame, frames, starts>>

\* the caller drops a Buffer it received
DropBuffer ==
    /\ \E a \in held :
         /\ held' = held \ {a}
         /\ bufMem' = [bufMem EXCEPT ![a] = 0]
    /\ result' = None
    /\ writes' = {}
    /\ op' = Op("drop", 0, 0, "drop", FALSE)
    /\ UNCHANGED <<buffers, next_entry, rdesc, panicked, dmardlar, sr, rps,
                   chrdr, inFrame, frames, starts, delivered>>
    /\ UNCHANGED <<ethvars, txvars>>

\* -------------------------------------------------------------- DMA engine
\* status words the engine writes back when it closes a descriptor
StatusFrame(len) == RXDESC_0_FS + RXDESC_0_LS + ShiftLeft(len, RXDESC_0_FL_SHIFT)
StatusError(len) == RXDESC_0_ES + StatusFrame(len)
StatusFirst == RXDESC_0_FS
StatusMiddle == 0
StatusLast(len) == RXDESC_0_LS + ShiftLeft(len, RXDESC_0_FL_SHIFT)

\* frame lengths the engine reports for a frame held by one buffer
FrameLens == {64, MTU}
\* length of a frame that needs a second buffer
LongLen == MTU + 4

\* where the engine goes after the descriptor d: RER takes it back to the list
\* base, otherwise RCH makes word 3 the next descriptor
NextDescriptor(d) ==
    IF TestBit(d.w1, RXDESC_1_RER) THEN dmardlar ELSE d.w3

\* an engine step is no software call: nothing returned, nothing written
NoCall ==
    /\ result' = None
    /\ writes' = {}
    /\ op' = Op("dma", 0, 0, "dma", FALSE)

\* SR set while stopped: the engine loads the list base and fetches
DmaStart ==
    /\ rps = RPS_STOPPED
    /\ sr
    /\ rps' = RPS_FETCHING
    /\ chrdr' = dmardlar
    /\ UNCHANGED <<rdesc, bufMem, inFrame, frames>>
    /\ NoCall
    /\ UNCHANGED swvars
    /\ UNCHANGED <<ethvars, txvars>>

\* the engine reads OWN of its current descriptor
DmaFetch ==
    /\ rps = RPS_FETCHING
    /\ chrdr \in DOMAIN rdesc
    /\ rps' = IF rdesc[chrdr].own THEN RPS_WAITING ELSE RPS_SUSPENDED
    /\ UNCHANGED <<rdesc, bufMem, chrdr, inFrame, frames>>
    /\ NoCall
    /\ UNCHANGED swvars
    /\ UNCHANGED <<ethvars, txvars>>

\* a frame (or the rest of one) arrives and is moved to the buffer of word 2
DmaReceive ==
    /\ rps = RPS_WAITING
    /\ inFrame \/ frames < MaxFrames
    /\ frames' = IF inFrame THEN frames ELSE frames + 1
    /\ bufMem' = [bufMem EXCEPT ![rdesc[chrdr].w2] = frames']
    /\ rps' = RPS_TRANSFER
    /\ UNCHANGED <<rdesc, chrdr, inFrame>>
    /\ NoCall
    /\ UNCHANGED swvars
    /\ UNCHANGED <<ethvars, txvars>>

\* the engine closes the descriptor: it writes the status word, clears OWN and
\* moves to the next descriptor
DmaClose ==
    /\ rps = RPS_TRANSFER
    /\ \E st \in (IF inFrame
                  THEN {StatusMiddle, StatusLast(LongLen)}
                  ELSE {StatusFrame(l) : l \in FrameLens}
                       \cup {StatusError(64), StatusFirst}) :
         /\ rdesc' = [rdesc EXCEPT ![chrdr] = [@ EXCEPT !.own = FALSE, !.w0 = st]]
         /\ inFrame' = ~TestBit(st, RXDESC_0_LS)
    /\ chrdr' = NextDescriptor(rdesc[chrdr])
    /\ rps' = RPS_FETCHING
    /\ UNCHANGED <<bufMem, frames>>
    /\ NoCall
    /\ UNCHANGED swvars
    /\ UNCHANGED <<ethvars, txvars>>

\* --------------------------------------------------------------------- Eth
\* the record of a call made outside the receive ring: its name, what it was
\* given and what it produced
Call(name, arg, out) == [name |-> name, arg |-> arg, out |-> out]

\* no such call was made by the last step
NoEthCall == Call("none", 0, 0)

\* the writes Eth::init makes after the reset barrier, in program order
InitWrites ==
    <<"macmiiar", "phy", "maccr", "macffr", "macfcr", "dmaomr", "dmabmr">>

\* TxRing::start: the head pointer, then start-transmission
TxStartWrites == <<"dmatdlar", "dmaomr.st">>

\* RxRing::start: the head pointer, start-receive, the poll demand
RxStartWrites == <<"dmardlar", "dmaomr.sr", "dmarpdr">>

\* Eth::start_rx(ring_length)
StartRx(ring_length) ==
    /\ pc = "done"
    /\ Start(ring_length)
    /\ call' = NoEthCall
    /\ UNCHANGED <<pc, rx_ring_len, dmabmr_sr, regwrites, dmaier, nvic, dmasr>>
    /\ UNCHANGED txvars

\* Eth::recv_next()
EthRecvNext ==
    /\ pc = "done"
    /\ RecvNext
    /\ call' = NoEthCall
    /\ UNCHANGED <<pc, rx_ring_len, dmabmr_sr, regwrites, dmaier, nvic, dmasr>>
    /\ UNCHANGED txvars

\* a reset that does not wait for the hardware
NewReset_no_wait ==
    /\ pc = "new"
    /\ dmabmr_sr' = TRUE
    /\ regwrites' = Append(regwrites, "dmabmr.sr")
    /\ pc' = "init"
    /\ call' = Call("new", rx_ring_len, "reset")
    /\ UNCHANGED <<rx_ring_len, dmaier, nvic, dmasr>>
    /\ UNCHANGED <<rxvars, txvars>>

\* reset_dma_and_wait, first statement: DMABMR.SR is set
NewReset ==
    /\ pc = "new"
    /\ dmabmr_sr' = TRUE
    /\ regwrites' = Append(regwrites, "dmabmr.sr")
    /\ pc' = "wait"
    /\ call' = Call("new", rx_ring_len, "reset")
    /\ UNCHANGED <<rx_ring_len, dmaier, nvic, dmasr>>
    /\ UNCHANGED <<rxvars, txvars>>

\* the hardware has finished its reset and clears DMABMR.SR
HwResetDone ==
    /\ dmabmr_sr
    /\ dmabmr_sr' = FALSE
    /\ call' = NoEthCall
    /\ UNCHANGED <<pc, rx_ring_len, regwrites, dmaier, nvic, dmasr>>
    /\ UNCHANGED <<rxvars, txvars>>

\* a busy-wait that ends whatever it reads
NewWaitDone_any ==
    /\ pc = "wait"
    /\ pc' = "init"
    /\ call' = Call("new", rx_ring_len, "reset done")
    /\ UNCHANGED <<rx_ring_len, dmabmr_sr, regwrites, dmaier, nvic, dmasr>>
    /\ UNCHANGED <<rxvars, txvars>>

\* reset_dma_and_wait, the busy-wait: the loop ends when it reads SR clear
NewWaitDone ==
    /\ pc = "wait"
    /\ ~dmabmr_sr
    /\ pc' = "init"
    /\ call' = Call("new", rx_ring_len, "reset done")
    /\ UNCHANGED <<rx_ring_len, dmabmr_sr, regwrites, dmaier, nvic, dmasr>>
    /\ UNCHANGED <<rxvars, txvars>>

\* Eth::init after the barrier: the next configuration write
NewInitWrite ==
    /\ pc = "init"
    /\ LET k == Len(regwrites)
       IN  /\ regwrites' = Append(regwrites, InitWrites[k])
           /\ pc' = IF k = Len(InitWrites) THEN "tx_start" ELSE "init"
           /\ call' = Call("new", rx_ring_len, InitWrites[k])
    /\ UNCHANGED <<rx_ring_len, dmabmr_sr, dmaier, nvic, dmasr>>
    /\ UNCHANGED <<rxvars, txvars>>

\* eth.tx.start(&eth.eth_dma)
NewTxStart ==
    /\ pc = "tx_start"
    /\ regwrites' = regwrites \o TxStartWrites
    /\ tx_st' = TRUE
    /\ tx_own' = [i \in 1..TxRingLen |-> FALSE]
    /\ tx_next' = 0
    /\ pc' = "start_rx"
    /\ call' = Call("new", rx_ring_len, "tx.start")
    /\ UNCHANGED <<rx_ring_len, dmabmr_sr, dmaier, nvic, dmasr>>
    /\ UNCHANGED <<tps, tx_cur, sendpc>>
    /\ UNCHANGED rxvars

\* if rx_ring_len > 0 { eth.start_rx(rx_ring_len); } and the return of Eth::new
NewStartRx ==
    /\ pc = "start_rx"
    /\ IF rx_ring_len > 0
       THEN /\ Start(rx_ring_len)
            /\ regwrites' = regwrites \o RxStartWrites
       ELSE /\ UNCHANGED rxvars
            /\ UNCHANGED regwrites
    /\ pc' = "done"
    /\ call' = Call("new", rx_ring_len, "done")
    /\ UNCHANGED <<rx_ring_len, dmabmr_sr, dmaier, nvic, dmasr>>
    /\ UNCHANGED txvars

\* ---------------------------------------------------------------- interrupts
\* the pending bits of DMASR the model follows: transmit and receive status,
\* their buffer-unavailable companions and the normal interrupt summary
StatusBits == {"ts", "tbus", "rs", "rbus", "nis"}

\* the enable bits Eth::enable_interrupt sets in DMAIER
enable_interrupt(ier) == ier \cup {"nise", "rie", "tie"}

\* a handler that acknowledges every pending bit
eth_interrupt_handler_clears_all(status) == {}

\* eth_interrupt_handler: DMASR is written with nis, rs and ts set and every
\* other bit clear; a pending bit written with 1 is cleared, one written with
\* 0 keeps its value
eth_interrupt_handler(status) == status \ {"nis", "rs", "ts"}

\* the Ethernet interrupt is asserted
Irq == nvic /\ "nise" \in dmaier /\ "nis" \in dmasr

\* Eth::enable_interrupt(nvic)
EnableInterrupt ==
    /\ pc = "done"
    /\ dmaier' = enable_interrupt(dmaier)
    /\ nvic' = TRUE
    /\ call' = Call("enable_interrupt", dmaier, dmaier')
    /\ UNCHANGED <<pc, rx_ring_len, dmabmr_sr, regwrites, dmasr>>
    /\ UNCHANGED <<rxvars, txvars>>

\* the hardware raises a status bit, and with an enabled receive or transmit
\* status the summary bit
HwRaise(b) ==
    /\ pc = "done"
    /\ dmasr' = dmasr \cup {b}
                \cup (IF \/ b = "rs" /\ "rie" \in dmaier
                         \/ b = "ts" /\ "tie" \in dmaier
                      THEN {"nis"} ELSE {})
    /\ call' = NoEthCall
    /\ UNCHANGED <<pc, rx_ring_len, dmabmr_sr, regwrites, dmaier, nvic>>
    /\ UNCHANGED <<rxvars, txvars>>

\* Eth::interrupt_handler() or eth_interrupt_handler(dma), called by the
\* application
InterruptHandler ==
    /\ pc = "done"
    /\ dmasr' = eth_interrupt_handler(dmasr)
    /\ call' = Call("interrupt_handler", dmasr, dmasr')
    /\ UNCHANGED <<pc, rx_ring_len, dmabmr_sr, regwrites, dmaier, nvic>>
    /\ UNCHANGED <<rxvars, txvars>>

\* ------------------------------------------------------------------ transmit
\* TxRing::is_running: the decode of the transmit process state
tx_is_running(state) ==
    state \in {TPS_FETCHING, TPS_WAITING, TPS_READING, TPS_CLOSING}

\* TxRing::demand_poll: the write to DMATPDR makes a suspended engine fetch
\* its current descriptor again
tx_demand_poll(state) == IF state = TPS_SUSPENDED THEN TPS_FETCHING ELSE state

\* a send that never prompts the engine
Eth_send_polls_never(running) == FALSE

\* Eth::send: if ! self.tx.is_running(..) { self.tx.demand_poll(..) }
Eth_send_polls(running) == ~running

\* Eth::send, first statement: self.tx.send(buffer) installs the Buffer at the
\* send cursor, sets OWN and advances the cursor.  Taken while the entry at
\* the cursor is free.
SendQueue ==
    /\ pc = "done"
    /\ sendpc = "idle"
    /\ ~tx_own[tx_next + 1]
    /\ tx_own' = [tx_own EXCEPT ![tx_next + 1] = TRUE]
    /\ tx_next' = (tx_next + 1) % TxRingLen
    /\ sendpc' = "check"
    /\ call' = Call("send", tx_next, [log |-> <<"tx.send">>, tps |-> tps])
    /\ UNCHANGED <<tx_st, tps, tx_cur>>
    /\ UNCHANGED <<pc, rx_ring_len, dmabmr_sr, regwrites, dmaier, nvic, dmasr>>
    /\ UNCHANGED rxvars

\* Eth::send, second statement: the engine's state is read and, if it is not
\* running, the poll demand is written
SendPoll ==
    /\ sendpc = "check"
    /\ LET poll == Eth_send_polls(tx_is_running(tps))
       IN  /\ tps' = IF poll THEN tx_demand_poll(tps) ELSE tps
           /\ call' = Call("send", call.arg,
                           [log |-> IF poll THEN <<"tx.send", "dmatpdr">>
                                    ELSE <<"tx.send">>,
                            tps |-> tps])
    /\ sendpc' = "idle"
    /\ UNCHANGED <<tx_st, tx_own, tx_next, tx_cur>>
    /\ UNCHANGED <<pc, rx_ring_len, dmabmr_sr, regwrites, dmaier, nvic, dmasr>>
    /\ UNCHANGED rxvars

\* a step of the transmit engine is no call; a send in progress stays on record
TxNoCall ==
    /\ call' = IF sendpc = "check" THEN call ELSE NoEthCall
    /\ UNCHANGED <<pc, rx_ring_len, dmabmr_sr, regwrites, dmaier, nvic, dmasr>>
    /\ UNCHANGED rxvars

\* ST set while stopped: the engine loads the list base and fetches
TxDmaStart ==
    /\ tps = TPS_STOPPED
    /\ tx_st
    /\ tps' = TPS_FETCHING
    /\ tx_cur' = 0
    /\ UNCHANGED <<tx_st, tx_own, tx_next, sendpc>>
    /\ TxNoCall

\* the engine reads OWN of its current descriptor
TxDmaFetch ==
    /\ tps = TPS_FETCHING
    /\ tps' = IF tx_own[tx_cur + 1] THEN TPS_READING ELSE TPS_SUSPENDED
    /\ UNCHANGED <<tx_st, tx_own, tx_next, tx_cur, sendpc>>
    /\ TxNoCall

\* the frame has been read from memory and goes out
TxDmaRead ==
    /\ tps = TPS_READING
    /\ tps' = TPS_WAITING
    /\ UNCHANGED <<tx_st, tx_own, tx_next, tx_cur, sendpc>>
    /\ TxNoCall

\* the transmit status has arrived
TxDmaStatus ==
    /\ tps = TPS_WAITING
    /\ tps' = TPS_CLOSING
    /\ UNCHANGED <<tx_st, tx_own, tx_next, tx_cur, sendpc>>
    /\ TxNoCall

\* the engine closes the descriptor, clears OWN and moves on
TxDmaClose ==
    /\ tps = TPS_CLOSING
    /\ tx_own' = [tx_own EXCEPT ![tx_cur + 1] = FALSE]
    /\ tx_cur' = (tx_cur + 1) % TxRingLen
    /\ tps' = TPS_FETCHING
    /\ UNCHANGED <<tx_st, tx_next, sendpc>>
    /\ TxNoCall

\* ------------------------------------------------------------ pure functions
\* descriptor words 1 the functions are applied to: every setting of the two
\* flags and of a bit outside both flags and the size field, over three sizes
Word1Inputs ==
    {f + g + h + r : f \in {0, RXDESC_1_RCH}, g \in {0, RXDESC_1_RER},
                     h \in {0, 65536}, r \in {0, MTU, RXDESC_1_RBS_MASK}}

DescInputs ==
    [own : BOOLEAN, w0 : {0, StatusFrame(64), StatusError(MTU)},
     w1 : Word1Inputs, w2 : {0, ALIGNMENT}, w3 : {0}]

\* buffer lengths that fit the size field
LenInputs == {0, 64, MTU, RXDESC_1_RBS_MASK}

\* a function about to be applied to the input x
Apply(fn, x) == Call("apply", [fn |-> fn, x |-> x], 0)

CallRunningState ==
    /\ call.name = "apply" /\ call.arg.fn = "running_state"
    /\ call' = Call("running_state", call.arg.x,
                    [state |-> running_state(call.arg.x),
                     running |-> is_running(running_state(call.arg.x))])
    /\ UNCHANGED <<pc, rx_ring_len, dmabmr_sr, regwrites, dmaier, nvic, dmasr>>
    /\ UNCHANGED <<rxvars, txvars>>

CallSetBuffer1 ==
    /\ call.name = "apply" /\ call.arg.fn = "set_buffer1"
    /\ call' = Call("set_buffer1", call.arg.x,
                    set_buffer1(call.arg.x.d, call.arg.x.buffer, call.arg.x.len))
    /\ UNCHANGED <<pc, rx_ring_len, dmabmr_sr, regwrites, dmaier, nvic, dmasr>>
    /\ UNCHANGED <<rxvars, txvars>>

CallSetOwned ==
    /\ call.name = "apply" /\ call.arg.fn = "set_owned"
    /\ call' = Call("set_owned", call.arg.x, set_owned(call.arg.x))
    /\ UNCHANGED <<pc, rx_ring_len, dmabmr_sr, regwrites, dmaier, nvic, dmasr>>
    /\ UNCHANGED <<rxvars, txvars>>

\* ----------------------------------------------------------- specification
\* the state Eth::new(mac, dma, 0) leaves: RxRing::new(MTU), nothing started
RxInit ==
    /\ buffers = <<>>
    /\ next_entry = 0
    /\ rdesc = <<>>
    /\ bufMem = [a \in Heap |-> 0]
    /\ held = {}
    /\ result = None
    /\ writes = {}
    /\ op = Op("new", 0, 0, "new", FALSE)
    /\ panicked = FALSE
    /\ dmardlar = NULL
    /\ sr = FALSE
    /\ rps = RPS_STOPPED
    /\ chrdr = NULL
    /\ inFrame = FALSE
    /\ frames = 0
    /\ starts = 0
    /\ delivered = 0

\* the transmit ring TxRing::new() builds
TxInit ==
    /\ tx_st = FALSE
    /\ tps = TPS_STOPPED
    /\ tx_own = [i \in 1..TxRingLen |-> FALSE]
    /\ tx_next = 0
    /\ tx_cur = 0
    /\ sendpc = "idle"

\* the state in which Eth::new(mac, dma, 0) returns
Constructed ==
    /\ RxInit
    /\ pc = "done"
    /\ rx_ring_len = 0
    /\ dmabmr_sr = FALSE
    /\ regwrites = <<"dmabmr.sr">> \o InitWrites \o TxStartWrites
    /\ dmaier = {}
    /\ nvic = FALSE
    /\ dmasr = {}
    /\ tx_st = TRUE
    /\ tps = TPS_STOPPED
    /\ tx_own = [i \in 1..TxRingLen |-> FALSE]
    /\ tx_next = 0
    /\ tx_cur = 0
    /\ sendpc = "idle"

Init ==
    /\ Constructed
    /\ call = NoEthCall

Next ==
    \/ \E ring_length \in 0..MaxRing : StartRx(ring_length)
    \/ EthRecvNext
    \/ DropBuffer
    \/ DmaStart
    \/ DmaFetch
    \/ DmaReceive
    \/ DmaClose

Spec == Init /\ [][Next]_vars

\* The engine is hardware: once started it fetches, and a transfer it began it
\* closes.  The caller polls recv_next in a loop and drops what it received.
\* Nothing makes a frame arrive.
FairSpec ==
    /\ Spec
    /\ WF_vars(DmaStart)
    /\ WF_vars(DmaFetch)
    /\ WF_vars(DmaClose)
    /\ WF_vars(EthRecvNext)
    /\ WF_vars(DropBuffer)

\* Eth::new from its first statement, for every rx_ring_len, followed by the
\* calls of the application and the interrupt status the hardware raises
EthInit ==
    /\ RxInit
    /\ TxInit
    /\ pc = "new"
    /\ rx_ring_len \in 0..MaxRing
    /\ dmabmr_sr = FALSE
    /\ regwrites = <<>>
    /\ dmaier = {}
    /\ nvic = FALSE
    /\ dmasr = {}
    /\ call = NoEthCall

EthNext ==
    \/ NewReset
    \/ HwResetDone
    \/ NewWaitDone
    \/ NewInitWrite
    \/ NewTxStart
    \/ NewStartRx
    \/ \E ring_length \in 0..MaxRing : StartRx(ring_length)
    \/ EnableInterrupt
    \/ \E b \in StatusBits \ {"nis"} : HwRaise(b)
    \/ InterruptHandler

EthSpec == EthInit /\ [][EthNext]_vars

\* The hardware finishes a reset it was asked for, and Eth::new runs on.
EthFairSpec ==
    /\ EthSpec
    /\ WF_vars(HwResetDone)
    /\ WF_vars(NewReset)
    /\ WF_vars(NewWaitDone)
    /\ WF_vars(NewInitWrite)
    /\ WF_vars(NewTxStart)
    /\ WF_vars(NewStartRx)

\* Eth::send against the transmit engine
TxNext ==
    \/ SendQueue
    \/ SendPoll
    \/ TxDmaStart
    \/ TxDmaFetch
    \/ TxDmaRead
    \/ TxDmaStatus
    \/ TxDmaClose

TxSpec == Init /\ [][TxNext]_vars

\* the descriptor and decoding functions applied to every input
FnNext ==
    \/ CallRunningState
    \/ CallSetBuffer1
    \/ CallSetOwned

\* one application of one function, over every input
FnInit ==
    /\ Constructed
    /\ \/ \E code \in 0..7 : call = Apply("running_state", code)
       \/ \E d \in DescInputs, len \in LenInputs :
            call = Apply("set_buffer1",
                         [d |-> d, buffer |-> 2 * ALIGNMENT, len |-> len])
       \/ \E d \in DescInputs : call = Apply("set_owned", d)

FnSpec == FnInit /\ [][FnNext]_vars

\* ------------------------------------------------------------- properties
\* the entry at the cursor and its descriptor
CursorValid == next_entry < Len(buffers)
CurEntry == buffers[next_entry + 1]
CurDesc == rdesc[CurEntry.desc]

\* the last step was a recv_next call that reached take_received
RecvStep == op'.name = "recv" /\ CursorValid

EndOfRing(a) == TestBit(rdesc[a].w1, RXDESC_1_RER)

\* the descriptor the chain leads to from the descriptor at a: the next
\* pointer, and from the end of the ring the registered head
ChainNext(a) == IF EndOfRing(a) THEN dmardlar ELSE rdesc[a].w3

RECURSIVE Walk(_, _)
Walk(a, k) == IF k = 0 THEN a ELSE Walk(ChainNext(a), k - 1)

\* the ring is one circular chain of n entries in insertion order, registered
\* with the engine at entry 0, ended by exactly one end-of-ring flag
RingTopology(n) ==
    /\ Len(buffers) = n
    /\ dmardlar = buffers[1].desc
    /\ \A i \in 1..(n - 1) : rdesc[buffers[i].desc].w3 = buffers[i + 1].desc
    /\ rdesc[buffers[n].desc].w3 = NULL
    /\ {i \in 1..n : EndOfRing(buffers[i].desc)} = {n}
    /\ \A k \in 1..(n - 1) : Walk(buffers[1].desc, k) = buffers[k + 1].desc
    /\ Walk(buffers[1].desc, n) = buffers[1].desc

\* C1: a completed single-segment frame of length l at the cursor: recv_next
\* returns the filled Buffer with length l, hands the descriptor back to the
\* engine pointing at a freshly allocated Buffer at another address, and moves
\* the cursor on by one, to 0 from the last entry.
C1_OwnershipRoundTrip ==
    [][\A l \in FrameLens :
         (RecvStep /\ ~CurDesc.own /\ CurDesc.w0 = StatusFrame(l))
         => /\ result'.some
            /\ result'.len = l
            /\ result'.ptr = CurEntry.buffer
            /\ rdesc'[CurEntry.desc].own
            /\ rdesc'[CurEntry.desc].w2 = buffers'[next_entry + 1].buffer
            /\ buffers'[next_entry + 1].buffer # result'.ptr
            /\ buffers'[next_entry + 1].buffer \in Free
            /\ next_entry' = (next_entry + 1) % Len(buffers)
            /\ ~panicked']_vars

\* recv_next returned a frame from the last entry of a ring of two or more
\* and the cursor wrapped to 0
C1_Witness ==
    /\ op.name = "recv" /\ op.case = "frame"
    /\ result.some /\ result.len \in FrameLens
    /\ op.len0 >= 2 /\ op.arg = op.len0 - 1 /\ next_entry = 0
    /\ rdesc[buffers[op.arg + 1].desc].own
    /\ buffers[op.arg + 1].buffer # result.ptr

\* C2: software writes a descriptor the engine can reach only while its OWN
\* flag is software; a descriptor is within the engine's reach once it is part
\* of a ring the engine has been started on.
C2_OwnArbitrates == \A w \in writes : w.pub => ~w.own

\* C3: an error frame at the cursor: recv_next returns nothing, does not
\* abort, sets OWN back to hardware and changes nothing else of the
\* descriptor (the buffer pointer included) nor the Buffer the entry holds.
C3_ErrorFrame ==
    [][(RecvStep /\ ~CurDesc.own /\ TestBit(CurDesc.w0, RXDESC_0_ES))
       => /\ ~result'.some
          /\ ~panicked'
          /\ rdesc' = [rdesc EXCEPT ![CurEntry.desc] = [@ EXCEPT !.own = TRUE]]
          /\ buffers' = buffers
          /\ held' = held]_vars

\* recv_next has just dropped an error frame
C3_Witness ==
    /\ op.name = "recv" /\ op.case = "error"
    /\ ~result.some
    /\ TestBit(rdesc[buffers[op.arg + 1].desc].w0, RXDESC_0_ES)
    /\ rdesc[buffers[op.arg + 1].desc].own

\* C4: a fragment at the cursor (OWN software, no error, not both first and
\* last segment): recv_next returns nothing, hands the descriptor back to the
\* engine and moves the cursor on by one, to 0 from the last entry.
C4_FragmentDrop ==
    [][(/\ RecvStep /\ ~CurDesc.own
        /\ ~TestBit(CurDesc.w0, RXDESC_0_ES)
        /\ ~(TestBit(CurDesc.w0, RXDESC_0_FS) /\ TestBit(CurDesc.w0, RXDESC_0_LS)))
       => /\ ~result'.some
          /\ rdesc'[CurEntry.desc].own
          /\ next_entry' = (next_entry + 1) % Len(buffers)]_vars

\* C5: the entry at the cursor is owned by the engine: recv_next returns
\* nothing, writes no descriptor and leaves the cursor, the descriptors, the
\* entries and the buffers as they were.
C5_NothingReady ==
    [][(RecvStep /\ CurDesc.own)
       => /\ ~result'.some
          /\ ~panicked'
          /\ writes' = {}
          /\ UNCHANGED <<next_entry, rdesc, buffers, bufMem, held>>]_vars

\* recv_next found the cursor entry owned by the engine after frames had been
\* received, and demanded a poll from an engine that was not running
C5_Witness ==
    /\ op.name = "recv" /\ op.case = "none"
    /\ ~result.some
    /\ frames > 0
    /\ op.poll

\* C6: recv_next never aborts: it returns a Buffer or nothing in every state,
\* the state after Eth::new(mac, dma, 0) included.
C6_RecvNeverAborts == op.name = "recv" => op.case # "panic"

\* C7: start(n) on a new ring, n >= 1, leaves one circular chain of n entries
\* headed by entry 0, whose address is in the ring-base register, with the
\* end-of-ring flag and a null next pointer on the last entry only.
C7_RingTopology ==
    (op.name = "start" /\ op.case = "fresh") => RingTopology(op.arg)

\* start(MaxRing) has just built a ring of the longest length
C7_Witness ==
    /\ op.name = "start" /\ op.case = "fresh"
    /\ op.arg = MaxRing
    /\ Len(buffers) = MaxRing
    /\ EndOfRing(buffers[MaxRing].desc)

\* C8: start(n) on a ring of m < n entries keeps the first m entries and what
\* their buffers hold, and leaves one circular chain of n entries with the
\* end-of-ring flag on the last entry only.
C8_Regrow ==
    [][(op'.name = "start" /\ op'.case = "regrow")
       => /\ SubSeq(buffers', 1, Len(buffers)) = buffers
          /\ bufMem' = bufMem
          /\ RingTopology(op.arg)']_vars

\* every descriptor but the one recv_next has just handed back is owned by
\* software, and recv_next found the engine not running: the engine had
\* stopped for want of a descriptor, and this call consumed the cursor entry.
\* The ring was started once, so its chain is the one C7 describes.
ConsumedWhileStalled ==
    /\ starts = 1
    /\ op.name = "recv"
    /\ op.case \in {"frame", "error", "fragment"}
    /\ op.poll
    /\ \A i \in 1..Len(buffers) :
         rdesc[buffers[i].desc].own <=> (i = op.arg + 1)

C10_CursorInvariant ==
    starts = 1 /\ Len(buffers) > 0
    => /\ CursorValid
       /\ (\E i \in 1..Len(buffers) : ~rdesc[buffers[i].desc].own)
          => ~CurDesc.own

\* C11: running_state maps the codes 0 and 4 to Stopped, 1, 3, 5 and 7 to
\* Running and the codes 2 and 6 to Unknown, for every 3-bit code, and
\* is_running is true of Running and of no other state.
C11_Decode ==
    call.name = "running_state"
    => /\ call.out.state = (IF call.arg \in {0, 4} THEN "Stopped"
                            ELSE IF call.arg \in {1, 3, 5, 7} THEN "Running"
                            ELSE "Unknown")
       /\ call.out.running <=> (call.out.state = "Running")

\* running_state was applied to the undocumented code 6
C11_Witness ==
    /\ call.name = "running_state"
    /\ call.arg = 6
    /\ call.out.state = "Unknown"
    /\ ~call.out.running

\* C20: set_buffer1 with a length that fits the size field (1518 among them)
\* leaves that length in the size field of word 1, whatever the field held,
\* stores the pointer in word 2 and changes neither the chained flag nor the
\* end-of-ring flag; set_owned sets OWN and changes no other bit of word 0.
C20_FieldsKept ==
    /\ call.name = "set_buffer1"
       => /\ LowBits(ShiftRight(call.out.w1, RXDESC_1_RBS_SHIFT),
                     RXDESC_1_RBS_MASK) = call.arg.len
          /\ TestBit(call.out.w1, RXDESC_1_RCH)
             <=> TestBit(call.arg.d.w1, RXDESC_1_RCH)
          /\ TestBit(call.out.w1, RXDESC_1_RER)
             <=> TestBit(call.arg.d.w1, RXDESC_1_RER)
          /\ call.out.w2 = call.arg.buffer
          /\ call.out.own = call.arg.d.own
    /\ call.name = "set_owned"
       => /\ call.out.own
          /\ call.out.w0 = call.arg.w0

\* set_buffer1 was given 1518 for a descriptor with both flags set and a size
\* field of all ones
C20_Witness ==
    /\ call.name = "set_buffer1"
    /\ call.arg.len = MTU
    /\ call.arg.d.w1 = RXDESC_1_RCH + RXDESC_1_RER + RXDESC_1_RBS_MASK
    /\ call.out.w1 = RXDESC_1_RCH + RXDESC_1_RER + MTU

\* the last step was a call of the interrupt handler
HandlerStep == call'.name = "interrupt_handler"

\* C12: a call of the interrupt handler clears the pending summary, receive
\* and transmit bits and leaves every other pending bit as it was; no other
\* step clears a pending bit, so without a call of the handler a raised bit
\* stays set and an asserted interrupt stays asserted.
C12_Acknowledge ==
    [][/\ HandlerStep
          => \A b \in StatusBits :
                b \in dmasr' <=> (b \in dmasr /\ b \notin {"nis", "rs", "ts"})
       /\ ~HandlerStep
          => /\ dmasr \subseteq dmasr'
             /\ Irq => Irq']_vars

\* with the interrupt enabled and asserted, the handler was called while a
\* receive, a transmit and a receive-buffer-unavailable status were pending
C12_Witness ==
    /\ call.name = "interrupt_handler"
    /\ {"nis", "rs", "ts", "rbus"} \subseteq call.arg
    /\ nvic /\ {"nise", "rie", "tie"} \subseteq dmaier
    /\ dmasr = call.arg \ {"nis", "rs", "ts"}

\* the places of a register write in the log of Eth::new
Places(w) == {i \in 1..Len(regwrites) : regwrites[i] = w}

\* C13: Eth::new writes the DMA reset first and no other register before the
\* reset is acknowledged; the transmit ring is started after the whole
\* configuration, in every construction; the receive ring is started (head
\* pointer, start-receive, poll demand) after that, when rx_ring_len > 0 and
\* only then; with rx_ring_len = 0 the receive ring is empty and not started
\* for as long as start_rx has not been called.
C13_ConstructionOrder ==
    /\ Len(regwrites) >= 1 => regwrites[1] = "dmabmr.sr"
    /\ Len(regwrites) >= 2 => ~dmabmr_sr
    /\ \A i \in Places("dmaomr.st") :
         \A k \in 1..Len(InitWrites) :
            \E j \in Places(InitWrites[k]) : j < i
    /\ \A k \in 1..Len(RxStartWrites) :
         \A i \in Places(RxStartWrites[k]) :
            /\ rx_ring_len > 0
            /\ \E j \in Places("dmaomr.st") : j < i
    /\ pc = "done" => tx_st /\ Places("dmaomr.st") # {}
    /\ pc # "done" => ~sr /\ buffers = <<>> /\ dmardlar = NULL
    /\ (pc = "done" /\ rx_ring_len > 0)
       => /\ sr
          /\ Len(buffers) >= rx_ring_len
          /\ dmardlar = buffers[1].desc
          /\ \A k \in 1..Len(RxStartWrites) : Places(RxStartWrites[k]) # {}
    /\ (rx_ring_len = 0 /\ starts = 0)
       => ~sr /\ buffers = <<>> /\ dmardlar = NULL /\ rps = RPS_STOPPED

\* Eth::new has returned having started a receive ring of the longest length
C13_Witness ==
    /\ pc = "done"
    /\ call = Call("new", MaxRing, "done")
    /\ rx_ring_len = MaxRing
    /\ Len(buffers) = MaxRing
    /\ sr /\ tx_st

\* C14: Eth::new sets the reset flag and stays in the wait, writing no
\* register, for as long as the flag is set; past the wait the flag is clear;
\* and with hardware that clears the flag in the end, Eth::new returns.
C14_ResetBarrier ==
    /\ [][(pc = "wait" /\ dmabmr_sr')
          => (pc' = "wait" /\ regwrites' = regwrites)]_vars
    /\ [](pc \notin {"new", "wait"} => ~dmabmr_sr)
    /\ [](pc = "wait" => regwrites = <<"dmabmr.sr">>)
    /\ <>(pc = "done")

\* Eth::new(mac, dma, 0) has returned after a reset the hardware acknowledged
C14_Witness ==
    /\ pc = "done"
    /\ call = Call("new", 0, "done")
    /\ ~dmabmr_sr
    /\ regwrites = <<"dmabmr.sr">> \o InitWrites \o TxStartWrites

\* the larger of two numbers
Max(a, b) == IF a >= b THEN a ELSE b

\* C15: a start(n) leaves max(m, n) entries in a ring of m, so after any
\* sequence of starts the ring has as many entries as the largest n asked
\* for; the m entries it found are kept in place with their Buffers, every
\* entry is chained to the one after it and the last one ends the ring, and
\* the cursor is 0.
C15_Monotone ==
    [][op'.name = "start"
       => /\ Len(buffers') = Max(Len(buffers), op'.arg)
          /\ SubSeq(buffers', 1, Len(buffers)) = buffers
          /\ next_entry' = 0
          /\ \A i \in 1..(Len(buffers') - 1) :
                rdesc'[buffers'[i].desc].w3 = buffers'[i + 1].desc
          /\ Len(buffers') > 0
             => /\ rdesc'[buffers'[Len(buffers')].desc].w3 = NULL
                /\ TestBit(rdesc'[buffers'[Len(buffers')].desc].w1,
                           RXDESC_1_RER)]_vars

\* start(1) was called on a ring of two entries, which it left at two
C15_Witness ==
    /\ op.name = "start" /\ op.case = "relink"
    /\ op.arg = 1 /\ op.len0 = 2
    /\ Len(buffers) = 2
    /\ next_entry = 0
    /\ starts = 2

\* the steps of one Eth::send call
SendQueueStep == sendpc = "idle" /\ sendpc' = "check"
SendPollStep == sendpc = "check" /\ sendpc' = "idle"

\* the call on record wrote the transmit poll demand
Polled(c) == c.name = "send" /\ Len(c.out.log) = 2 /\ c.out.log[2] = "dmatpdr"

\* C16: Eth::send gives the descriptor to the hardware first, and writes no
\* poll demand in doing so; it then writes the transmit poll demand if the
\* engine is not running at that moment and only then; so an engine that was
\* suspended when the frame was queued is polled, with the descriptor already
\* owned by the hardware, and fetches again.
C16_SendThenPoll ==
    [][/\ SendQueueStep
          => /\ tx_own'[tx_next + 1]
             /\ ~Polled(call')
             /\ tps' = tps
       /\ SendPollStep
          => /\ Polled(call')
                <=> tps \notin {TPS_FETCHING, TPS_WAITING, TPS_READING,
                                TPS_CLOSING}
             /\ call'.out.log[1] = "tx.send"
             /\ call.out.tps = TPS_SUSPENDED
                => /\ Polled(call')
                   /\ tx_own[call.arg + 1]
                   /\ tps' = TPS_FETCHING
       /\ (~Polled(call) /\ Polled(call')) => SendPollStep]_vars

\* a send found the engine suspended and wrote the poll demand after it had
\* queued the frame
C16_Witness ==
    /\ Polled(call)
    /\ call.out.tps = TPS_SUSPENDED
    /\ sendpc = "idle"
    /\ tps = TPS_FETCHING
    /\ tx_own[call.arg + 1]

\* C17: no descriptor owned by the engine points at a Buffer the caller holds,
\* no Buffer of the ring is one the caller holds, no two entries have the
\* same Buffer or point at the same Buffer, and recv_next writes the buffer
\* pointer of a descriptor while OWN is still software.
C17_NoAliasing ==
    /\ \A i \in 1..Len(buffers) :
          rdesc[buffers[i].desc].own => rdesc[buffers[i].desc].w2 \notin held
    /\ RingBuffers(buffers) \cap held = {}
    /\ \A i, j \in 1..Len(buffers) :
          i # j => /\ buffers[i].buffer # buffers[j].buffer
                   /\ rdesc[buffers[i].desc].w2 # rdesc[buffers[j].desc].w2
    /\ \A w \in writes : (op.name = "recv" /\ w.word = "w2") => ~w.own

\* the caller holds a Buffer recv_next returned from entry 1 of a ring whose
\* descriptors are all back with the engine
C17_Witness ==
    /\ op.name = "recv" /\ op.case = "frame" /\ op.arg = 1
    /\ result.some /\ result.ptr \in held
    /\ Len(buffers) = 2
    /\ \A i \in 1..Len(buffers) : rdesc[buffers[i].desc].own

\* C18: the Buffers recv_next returns come in the order in which the engine
\* completed their frames: each holds a later frame than the one returned
\* before it (stated for a ring started once).
C18_InOrder ==
    [][(op'.name = "recv" /\ result'.some /\ starts = 1)
       => bufMem[result'.ptr] > delivered]_vars

\* frame number f lies complete in an entry of the ring: a single-segment
\* frame without error, owned by software, in a ring started once
Completed(f) ==
    /\ starts = 1
    /\ \E i \in 1..Len(buffers) :
          LET d == rdesc[buffers[i].desc]
          IN  /\ ~d.own
              /\ ~TestBit(d.w0, RXDESC_0_ES)
              /\ TestBit(d.w0, RXDESC_0_FS) /\ TestBit(d.w0, RXDESC_0_LS)
              /\ bufMem[d.w2] = f

\* C19: a single-segment frame the engine has completed into the ring is
\* returned by recv_next in the end, with a caller that keeps calling and no
\* further frame arriving.  A later start() rebuilds the ring and ends the
\* obligation.
C19_EventualDelivery ==
    \A f \in 1..MaxFrames : Completed(f) ~> (delivered = f \/ starts > 1)

====
